---- MODULE Spec2Model ----
(***************************************************************************)
(* The SSRF-hardened request gateway of the YASP desktop shell:            *)
(* validate_url / check_ip_allowed and the two commands                    *)
(* execute_api_request and fetch_spec of src-tauri/src/commands/mod.rs.    *)
(*                                                                         *)
(* Text is a sequence of characters (one-character strings; a code point   *)
(* outside ASCII is written "U+xxxx").  A host text is a record that says  *)
(* what the characters spell: a name, a dotted IPv4 quad or an IPv6        *)
(* address, and whether the address is written between [ and ].            *)
(***************************************************************************)
EXTENDS Integers, Sequences, FiniteSets, TLC

VARIABLES pc, cmd, url, method, headers, body, dispatched, response, result

vars == <<pc, cmd, url, method, headers, body, dispatched, response, result>>

\* ------------------------------------------------------------------ text

Lowers == <<"a","b","c","d","e","f","g","h","i","j","k","l","m",
            "n","o","p","q","r","s","t","u","v","w","x","y","z">>
Uppers == <<"A","B","C","D","E","F","G","H","I","J","K","L","M",
            "N","O","P","Q","R","S","T","U","V","W","X","Y","Z">>

\* Option<T>: None is the empty sequence, Some(x) the one-element sequence.
None == <<>>
Some(x) == <<x>>

Min(a, b) == IF a < b THEN a ELSE b
Max(a, b) == IF a > b THEN a ELSE b

\* char::to_ascii_lowercase, as the URL parser applies it to scheme and domain
char_to_ascii_lowercase(c) ==
    IF \E i \in DOMAIN Uppers : Uppers[i] = c
    THEN Lowers[CHOOSE i \in DOMAIN Uppers : Uppers[i] = c]
    ELSE c

to_ascii_lowercase(s) == [i \in DOMAIN s |-> char_to_ascii_lowercase(s[i])]

\* char::to_uppercase (Unicode): the ASCII letters, and the two non-ASCII
\* lowercase letters whose uppercase is an ASCII letter,
\* U+017F (long s) -> S and U+0131 (dotless i) -> I.
char_to_uppercase(c) ==
    IF \E i \in DOMAIN Lowers : Lowers[i] = c
    THEN Uppers[CHOOSE i \in DOMAIN Lowers : Lowers[i] = c]
    ELSE IF c = "U+017F" THEN "S"
    ELSE IF c = "U+0131" THEN "I"
    ELSE c

\* str::to_uppercase
to_uppercase(s) == [i \in DOMAIN s |-> char_to_uppercase(s[i])]

\* ------------------------------------------------------------ host texts

NameText(n)   == [bracketed |-> FALSE, form |-> "name", name |-> n, addr |-> <<>>]
V4Text(a)     == [bracketed |-> FALSE, form |-> "v4", name |-> <<>>, addr |-> a]
V6Text(a)     == [bracketed |-> FALSE, form |-> "v6", name |-> <<>>, addr |-> a]
Bracketed(t)  == [t EXCEPT !.bracketed = TRUE]

\* &str == &str
TextEq(a, b) ==
    /\ a.bracketed = b.bracketed
    /\ a.form = b.form
    /\ a.name = b.name
    /\ a.addr = b.addr

\* --------------------------------------------------------------- results

NoHost == [form |-> "none", name |-> <<>>, addr |-> <<>>]

NoUrl == [scheme |-> <<>>, host |-> NoHost, port |-> None, path |-> ""]

EmptyMap == [n \in {} |-> ""]

NoBody == [len |-> 0, lossy |-> FALSE]

NoResp == [status |-> 0, status_text |-> "", headers |-> EmptyMap,
           body |-> NoBody, duration_ms |-> 0]

\* A Result<_, String>: `kind` is the fixed part of an error message, `name`,
\* `text` and `num` what the message interpolates; `url`, `resp` and `string`
\* hold the Ok value of validate_url, execute_api_request and fetch_spec.
Ok(u) == [ok |-> TRUE, kind |-> "Ok", name |-> <<>>, text |-> "", num |-> None,
          url |-> u, resp |-> NoResp, string |-> NoBody]

Err(kind, name, text, num) ==
    [ok |-> FALSE, kind |-> kind, name |-> name, text |-> text, num |-> num,
     url |-> NoUrl, resp |-> NoResp, string |-> NoBody]

OkResp(r) == [Ok(NoUrl) EXCEPT !.resp = r]

OkString(t) == [Ok(NoUrl) EXCEPT !.string = t]

\* ------------------------------------------------------ url::Url (crate)

http   == <<"h","t","t","p">>
https  == <<"h","t","t","p","s">>
ftp    == <<"f","t","p">>
file   == <<"f","i","l","e">>
ws     == <<"w","s">>
wss    == <<"w","s","s">>
gopher == <<"g","o","p","h","e","r">>
mailto == <<"m","a","i","l","t","o">>

SpecialSchemes == {http, https, ftp, file, ws, wss}

default_port(scheme) ==
    IF scheme \in {http, ws} THEN Some(80)
    ELSE IF scheme \in {https, wss} THEN Some(443)
    ELSE IF scheme = ftp THEN Some(21)
    ELSE None

\* a parser that takes an http URL with nothing where the host goes
Url_parse_any_host(s) ==
    LET scheme == to_ascii_lowercase(s.scheme)
        special == scheme \in SpecialSchemes
    IN  IF s.scheme = <<>>
        THEN Err("Invalid URL: ", <<>>, "relative URL without a base", None)
        ELSE IF s.port # None /\ s.port[1] > 65535
        THEN Err("Invalid URL: ", <<>>, "invalid port number", None)
        ELSE Ok([scheme |-> scheme,
                 host |-> IF special /\ s.host.form = "name"
                          THEN [s.host EXCEPT !.name = to_ascii_lowercase(@)]
                          ELSE s.host,
                 port |-> IF s.port = default_port(scheme) THEN None ELSE s.port,
                 path |-> s.path])

\* url::Url::parse on the string whose pieces are s.scheme (empty: the string
\* has no "scheme:" prefix), s.host (form "none": nothing where the host
\* goes; an IPv6 address stands between brackets in the string), s.port and
\* s.path.  The parser lowercases the scheme, lowercases the domain of a
\* special scheme, refuses an empty host for a special scheme other than
\* file, refuses a port above 65535 and drops a port that is the scheme's
\* default.
Url_parse(s) ==
    LET scheme == to_ascii_lowercase(s.scheme)
        special == scheme \in SpecialSchemes
    IN  IF s.scheme = <<>>
        THEN Err("Invalid URL: ", <<>>, "relative URL without a base", None)
        ELSE IF special /\ scheme # file /\ s.host.form = "none"
        THEN Err("Invalid URL: ", <<>>, "empty host", None)
        ELSE IF s.port # None /\ s.port[1] > 65535
        THEN Err("Invalid URL: ", <<>>, "invalid port number", None)
        ELSE Ok([scheme |-> scheme,
                 host |-> IF special /\ s.host.form = "name"
                          THEN [s.host EXCEPT !.name = to_ascii_lowercase(@)]
                          ELSE s.host,
                 port |-> IF s.port = default_port(scheme) THEN None ELSE s.port,
                 path |-> s.path])

\* Url::host_str: "IPv6 addresses are given between [ and ] brackets"
host_str(u) ==
    IF u.host.form = "none" THEN None
    ELSE IF u.host.form = "name" THEN Some(NameText(u.host.name))
    ELSE IF u.host.form = "v4" THEN Some(V4Text(u.host.addr))
    ELSE Some(Bracketed(V6Text(u.host.addr)))

\* Url::port
Url_port(u) == u.port

\* IpAddr::from_str: a dotted quad or an IPv6 address, with no brackets
IpAddr_from_str(t) ==
    IF ~t.bracketed /\ t.form \in {"v4", "v6"}
    THEN Some([form |-> t.form, addr |-> t.addr])
    ELSE None

\* ------------------------------------------------------ check_ip_allowed

private_ranges == <<
    [name |-> "10.0.0.0/8",      form |-> "v4", addr |-> <<10, 0, 0, 0>>,     prefix |-> 8],
    [name |-> "172.16.0.0/12",   form |-> "v4", addr |-> <<172, 16, 0, 0>>,   prefix |-> 12],
    [name |-> "192.168.0.0/16",  form |-> "v4", addr |-> <<192, 168, 0, 0>>,  prefix |-> 16],
    [name |-> "127.0.0.0/8",     form |-> "v4", addr |-> <<127, 0, 0, 0>>,    prefix |-> 8],
    [name |-> "::1/128",         form |-> "v6", addr |-> <<0, 0, 0, 0, 0, 0, 0, 1>>, prefix |-> 128],
    [name |-> "169.254.0.0/16",  form |-> "v4", addr |-> <<169, 254, 0, 0>>,  prefix |-> 16],
    [name |-> "fc00::/7",        form |-> "v6", addr |-> <<64512, 0, 0, 0, 0, 0, 0, 0>>, prefix |-> 7],
    [name |-> "fe80::/10",       form |-> "v6", addr |-> <<65152, 0, 0, 0, 0, 0, 0, 0>>, prefix |-> 10],
    [name |-> "100.64.0.0/10",   form |-> "v4", addr |-> <<100, 64, 0, 0>>,   prefix |-> 10],
    [name |-> "198.51.100.0/24", form |-> "v4", addr |-> <<198, 51, 100, 0>>, prefix |-> 24],
    [name |-> "203.0.113.0/24",  form |-> "v4", addr |-> <<203, 0, 113, 0>>,  prefix |-> 24] >>

\* bits of one group of the address: 8 for a v4 octet, 16 for a v6 group
GroupBits(form) == IF form = "v4" THEN 8 ELSE 16

\* a containment test that compares whole groups only, rounding the prefix down
network_contains_whole_groups(network, ip) ==
    /\ network.form = ip.form
    /\ LET w == GroupBits(ip.form)
       IN  \A i \in DOMAIN ip.addr :
              i * w <= network.prefix => ip.addr[i] = network.addr[i]

\* IpNetwork::contains: same family, and the first `prefix` bits agree
network_contains(network, ip) ==
    /\ network.form = ip.form
    /\ LET w == GroupBits(ip.form)
       IN  \A i \in DOMAIN ip.addr :
              LET k == Min(w, Max(0, network.prefix - (i - 1) * w))
              IN  ip.addr[i] \div (2 ^ (w - k)) = network.addr[i] \div (2 ^ (w - k))

check_ip_allowed(ip) ==
    IF \E i \in DOMAIN private_ranges : network_contains(private_ranges[i], ip)
    THEN LET first == CHOOSE i \in DOMAIN private_ranges :
                        /\ network_contains(private_ranges[i], ip)
                        /\ \A j \in 1..(i - 1) : ~network_contains(private_ranges[j], ip)
         IN  Err("Blocked IP: ", <<>>, private_ranges[first].name, None)
    ELSE Ok(NoUrl)

\* ---------------------------------------------------------- validate_url

metadata_google_internal ==
    <<"m","e","t","a","d","a","t","a",".","g","o","o","g","l","e",".",
      "i","n","t","e","r","n","a","l">>

blocked_hosts == <<
    V4Text(<<169, 254, 169, 254>>),
    NameText(metadata_google_internal),
    V6Text(<<64768, 3778, 0, 0, 0, 0, 0, 596>>),     \* fd00:ec2::254
    V4Text(<<100, 100, 100, 200>>) >>

\* the port list with its last entry forgotten
dangerous_ports_short == {22, 23, 25, 110, 143, 3306, 5432, 6379}

dangerous_ports == {22, 23, 25, 110, 143, 3306, 5432, 6379, 27017}

\* a scheme list that lets ftp through
allowed_schemes_with_ftp == {http, https, ftp}

allowed_schemes == {http, https}

validate_url(s) ==
    LET parsed == Url_parse(s) IN
    IF ~parsed.ok THEN parsed
    ELSE LET u == parsed.url
             host == host_str(u)
         IN
         IF u.scheme \notin allowed_schemes
         THEN Err("Disallowed URL scheme: ", u.scheme, "", None)
         ELSE IF host = None
         THEN Err("URL has no host", <<>>, "", None)
         ELSE IF \E i \in DOMAIN blocked_hosts : TextEq(blocked_hosts[i], host[1])
         THEN Err("Blocked host: ", <<>>, "is a cloud metadata endpoint", None)
         ELSE LET ip == IpAddr_from_str(host[1])
                  allowed == IF ip # None THEN check_ip_allowed(ip[1]) ELSE Ok(NoUrl)
              IN
              IF ~allowed.ok THEN allowed
              ELSE IF Url_port(u) # None /\ Url_port(u)[1] \in dangerous_ports
              THEN Err("Blocked port: ", <<>>, "", Url_port(u))
              ELSE Ok(u)

\* ------------------------------------------------- header validation

Digits == {"0","1","2","3","4","5","6","7","8","9"}

Letters == {Lowers[i] : i \in DOMAIN Lowers} \cup {Uppers[i] : i \in DOMAIN Uppers}

\* Characters are drawn from the letters, the digits and Punctuation.
\* "SP", "HT", "CR", "LF" and "NUL" stand for the space and control characters.
\* HeaderName::from_bytes takes the RFC 7230 token characters: of these, the
\* letters, the digits and - _ .
TokenChars == Letters \cup Digits \cup {"-", "_", "."}

\* HeaderValue::from_str takes visible ASCII, space and tab, and no other
\* control character
ValueChars == TokenChars \cup {"SP", "HT", "/", ",", ";", ":", "="}

HeaderName_from_bytes_ok(key) == key # <<>> /\ \A i \in DOMAIN key : key[i] \in TokenChars

HeaderValue_from_str_ok(value) == \A i \in DOMAIN value : value[i] \in ValueChars

\* the errors the loop over `headers` can return: the HashMap is walked in an
\* arbitrary order, and the first entry that fails to parse ends the command
HeaderErrors(hs) ==
    {Err("Invalid header name: ", h.key, "", None) :
        h \in {x \in hs : ~HeaderName_from_bytes_ok(x.key)}}
    \cup
    {Err("Invalid header value for ", h.key, "", None) :
        h \in {x \in hs : HeaderName_from_bytes_ok(x.key) /\ ~HeaderValue_from_str_ok(x.value)}}

\* HeaderName::from_bytes lowercases the name; header_map.insert
header_map(hs) == {[key |-> to_ascii_lowercase(h.key), value |-> h.value] : h \in hs}

\* ------------------------------------------------------------ responses

\* StatusCode::canonical_reason
canonical_reason(status) ==
    CASE status = 200 -> Some("OK")
      [] status = 204 -> Some("No Content")
      [] status = 300 -> Some("Multiple Choices")
      [] status = 304 -> Some("Not Modified")
      [] status = 404 -> Some("Not Found")
      [] status = 500 -> Some("Internal Server Error")
      [] OTHER -> None

unwrap_or(opt, default) == IF opt = None THEN default ELSE opt[1]

\* a success test that takes the redirection statuses too
is_success_below_400(status) == 200 <= status /\ status < 400

\* StatusCode::is_success
is_success(status) == 200 <= status /\ status < 300

insert(map, k, v) == [n \in DOMAIN map \cup {k} |-> IF n = k THEN v ELSE map[n]]

\* the loop over response.headers(): a value that is not visible ASCII
\* (to_str fails) is skipped, a repeated name overwrites
RECURSIVE collect_headers(_, _)
collect_headers(hs, map) ==
    IF hs = <<>> THEN map
    ELSE collect_headers(Tail(hs),
                         IF Head(hs).to_str_ok
                         THEN insert(map, Head(hs).key, Head(hs).value)
                         ELSE map)

MAX_BODY_BYTES == 10 * 1024 * 1024

MAX_SPEC_BYTES == 5 * 1024 * 1024

\* String::from_utf8_lossy(&body_bytes).into_owned()
from_utf8_lossy(bytes) == [len |-> bytes.len, lossy |-> ~bytes.utf8]

\* String::from_utf8(body_bytes.to_vec())
from_utf8(bytes) ==
    IF bytes.utf8 THEN OkString([len |-> bytes.len, lossy |-> FALSE])
    ELSE Err("Spec content is not valid UTF-8.", <<>>, "", None)

\* the size check with >= for >
execute_finish_at_limit(resp, bytes) ==
    IF bytes.len >= MAX_BODY_BYTES
    THEN Err("Response body exceeds 10MB limit.", <<>>, "", None)
    ELSE OkResp([status |-> resp.status,
                 status_text |-> unwrap_or(canonical_reason(resp.status), "Unknown"),
                 headers |-> collect_headers(resp.headers, EmptyMap),
                 body |-> from_utf8_lossy(bytes),
                 duration_ms |-> resp.duration_ms])

\* the part of execute_api_request after response.bytes().await returned Ok
execute_finish(resp, bytes) ==
    IF bytes.len > MAX_BODY_BYTES
    THEN Err("Response body exceeds 10MB limit.", <<>>, "", None)
    ELSE OkResp([status |-> resp.status,
                 status_text |-> unwrap_or(canonical_reason(resp.status), "Unknown"),
                 headers |-> collect_headers(resp.headers, EmptyMap),
                 body |-> from_utf8_lossy(bytes),
                 duration_ms |-> resp.duration_ms])

\* the part of fetch_spec after response.bytes().await returned Ok
fetch_finish(bytes) ==
    IF bytes.len > MAX_SPEC_BYTES
    THEN Err("Spec file exceeds 5MB limit.", <<>>, "", None)
    ELSE from_utf8(bytes)

\* the method list with PATCH forgotten
allowed_methods_without_patch ==
    {<<"G","E","T">>, <<"P","O","S","T">>, <<"P","U","T">>, <<"D","E","L","E","T","E">>,
     <<"H","E","A","D">>, <<"O","P","T","I","O","N","S">>}

allowed_methods == {<<"G","E","T">>, <<"P","O","S","T">>, <<"P","U","T">>,
                    <<"P","A","T","C","H">>, <<"D","E","L","E","T","E">>,
                    <<"H","E","A","D">>, <<"O","P","T","I","O","N","S">>}

\* no request was handed to send()
NoRequest == [method |-> <<>>, url |-> NoUrl, headers |-> {}, body |-> None,
              redirects |-> 0, timeout_s |-> 0]

\* execute_api_request with the URL parsed but not validated
execute_prepare_unvalidated(m, u, hs, b, build_ok, header_err) ==
    LET v == Url_parse(u)
        method_upper == to_uppercase(m)
    IN  IF ~v.ok THEN <<v, NoRequest>>
        ELSE IF method_upper \notin allowed_methods
        THEN <<Err("Unsallowed HTTP method: ", m, "", None), NoRequest>>
        ELSE IF ~build_ok
        THEN <<Err("Failed to build HTTP client: ", <<>>, "", None), NoRequest>>
        ELSE IF HeaderErrors(hs) # {}
        THEN <<header_err, NoRequest>>
        ELSE <<v, [method |-> method_upper, url |-> v.url, headers |-> header_map(hs),
                   body |-> b, redirects |-> 5, timeout_s |-> 30]>>

\* execute_api_request up to the request it hands to send(): the pair of
\* the error it returns (or the validated URL) and the request
execute_prepare(m, u, hs, b, build_ok, header_err) ==
    LET v == validate_url(u)
        method_upper == to_uppercase(m)
    IN  IF ~v.ok THEN <<v, NoRequest>>
        ELSE IF method_upper \notin allowed_methods
        THEN <<Err("Unsallowed HTTP method: ", m, "", None), NoRequest>>
        ELSE IF ~build_ok
        THEN <<Err("Failed to build HTTP client: ", <<>>, "", None), NoRequest>>
        ELSE IF HeaderErrors(hs) # {}
        THEN <<header_err, NoRequest>>
        ELSE <<v, [method |-> method_upper, url |-> v.url, headers |-> header_map(hs),
                   body |-> b, redirects |-> 5, timeout_s |-> 30]>>

accept == <<"a","c","c","e","p","t">>

spec_accept == <<"application/json, application/yaml, text/yaml, text/plain, */*">>

\* fetch_spec up to the request it hands to send()
fetch_prepare(u, build_ok) ==
    LET v == validate_url(u)
    IN  IF ~v.ok THEN <<v, NoRequest>>
        ELSE IF ~build_ok
        THEN <<Err("Failed to build HTTP client: ", <<>>, "", None), NoRequest>>
        ELSE <<v, [method |-> <<"G","E","T">>, url |-> v.url,
                   headers |-> {[key |-> accept, value |-> spec_accept]},
                   body |-> None, redirects |-> 3, timeout_s |-> 15]>>

\* ---------------------------------------------------------------- inputs

example_com == <<"e","x","a","m","p","l","e",".","c","o","m">>

localhost == <<"l","o","c","a","l","h","o","s","t">>

Metadata_Google_Internal ==
    <<"M","e","t","a","d","a","t","a",".","G","o","o","g","l","e",".",
      "I","N","T","E","R","N","A","L">>

NameHost(n) == [form |-> "name", name |-> n, addr |-> <<>>]
V4Host(a)   == [form |-> "v4", name |-> <<>>, addr |-> a]
V6Host(a)   == [form |-> "v6", name |-> <<>>, addr |-> a]

\* dotted quads: the first and last address of every IPv4 range, the
\* addresses just outside, the metadata addresses and public addresses
V4Addrs == {
    <<9, 255, 255, 255>>, <<10, 0, 0, 0>>, <<10, 0, 0, 1>>, <<10, 255, 255, 255>>, <<11, 0, 0, 0>>,
    <<172, 15, 255, 255>>, <<172, 16, 0, 1>>, <<172, 31, 255, 255>>, <<172, 32, 0, 0>>,
    <<192, 167, 255, 255>>, <<192, 168, 1, 1>>, <<192, 168, 255, 255>>, <<192, 169, 0, 0>>,
    <<126, 255, 255, 255>>, <<127, 0, 0, 1>>, <<127, 255, 255, 255>>, <<128, 0, 0, 0>>,
    <<169, 253, 255, 255>>, <<169, 254, 1, 1>>, <<169, 254, 169, 254>>, <<169, 255, 0, 0>>,
    <<100, 63, 255, 255>>, <<100, 64, 0, 0>>, <<100, 100, 100, 200>>, <<100, 127, 255, 255>>,
    <<100, 128, 0, 0>>,
    <<198, 51, 99, 255>>, <<198, 51, 100, 0>>, <<198, 51, 100, 255>>, <<198, 51, 101, 0>>,
    <<203, 0, 112, 255>>, <<203, 0, 113, 7>>, <<203, 0, 114, 0>>,
    <<8, 8, 8, 8>>, <<0, 0, 0, 0>>, <<255, 255, 255, 255>> }

\* IPv6 addresses, as groups of 16 bits
V6Addrs == {
    <<0, 0, 0, 0, 0, 0, 0, 0>>,                 \* ::
    <<0, 0, 0, 0, 0, 0, 0, 1>>,                 \* ::1
    <<0, 0, 0, 0, 0, 0, 0, 2>>,                 \* ::2
    <<64511, 65535, 0, 0, 0, 0, 0, 1>>,         \* fbff:ffff::1
    <<64512, 0, 0, 0, 0, 0, 0, 1>>,             \* fc00::1
    <<64768, 3778, 0, 0, 0, 0, 0, 596>>,        \* fd00:ec2::254
    <<65023, 65535, 0, 0, 0, 0, 0, 1>>,         \* fdff:ffff::1
    <<65024, 0, 0, 0, 0, 0, 0, 1>>,             \* fe00::1
    <<65151, 65535, 0, 0, 0, 0, 0, 1>>,         \* fe7f:ffff::1
    <<65152, 0, 0, 0, 0, 0, 0, 1>>,             \* fe80::1
    <<65215, 65535, 0, 0, 0, 0, 0, 1>>,         \* febf:ffff::1
    <<65216, 0, 0, 0, 0, 0, 0, 1>>,             \* fec0::1
    <<8193, 3512, 0, 0, 0, 0, 0, 1>>,           \* 2001:db8::1
    <<0, 0, 0, 0, 0, 65535, 32512, 1>> }        \* ::ffff:127.0.0.1

Names == {example_com, localhost, metadata_google_internal, Metadata_Google_Internal}

Hosts == {NameHost(n) : n \in Names} \cup {V4Host(a) : a \in V4Addrs}
           \cup {V6Host(a) : a \in V6Addrs}

Schemes == {http, https, <<"H","T","T","P">>, <<"H","t","t","p","S">>, ftp, file, gopher, mailto, ws}

Ports == {0, 21, 22, 23, 24, 25, 80, 110, 143, 443, 3306, 3307, 5432, 6379,
          8080, 8443, 27017, 65535, 65536}

Paths == {"/", "/latest/meta-data/"}

UrlText(sc, h, p, pa) == [scheme |-> sc, host |-> h, port |-> p, path |-> pa]

\* The strings validate_url is given: "", "not-a-url" and "//host/path" (no
\* scheme), "scheme:path" (no host), "scheme://host/path" and
\* "scheme://host:port/path".
UrlTexts ==
    {UrlText(<<>>, h, None, pa) : h \in Hosts \cup {NoHost}, pa \in Paths \cup {"", "not-a-url"}}
    \cup {UrlText(sc, NoHost, None, pa) : sc \in Schemes, pa \in Paths}
    \cup {UrlText(sc, h, None, pa) : sc \in Schemes, h \in Hosts, pa \in Paths}
    \cup {UrlText(sc, h, Some(p), pa) : sc \in Schemes, h \in Hosts, p \in Ports, pa \in Paths}

\* The URLs the two commands are called with: one or more for every way
\* validate_url returns.
CmdUrls == {
    UrlText(<<>>, NoHost, None, "not-a-url"),
    UrlText(http, NoHost, None, "/"),
    UrlText(file, NoHost, None, "/"),
    UrlText(ftp, NameHost(example_com), None, "/"),
    UrlText(http, V4Host(<<169, 254, 169, 254>>), None, "/latest/meta-data/"),
    UrlText(http, NameHost(Metadata_Google_Internal), None, "/"),
    UrlText(http, V4Host(<<127, 0, 0, 1>>), Some(8080), "/"),
    UrlText(http, V4Host(<<10, 0, 0, 1>>), None, "/"),
    UrlText(http, V6Host(<<0, 0, 0, 0, 0, 0, 0, 1>>), None, "/"),
    UrlText(http, NameHost(example_com), Some(22), "/"),
    UrlText(https, NameHost(example_com), Some(3306), "/"),
    UrlText(https, NameHost(example_com), Some(65536), "/"),
    UrlText(https, NameHost(example_com), None, "/"),
    UrlText(<<"H","T","T","P">>, NameHost(example_com), Some(8080), "/"),
    UrlText(https, V4Host(<<8, 8, 8, 8>>), Some(8443), "/") }

\* every way of writing `word` in upper and lower case letters
CaseVariants(word) ==
    {m \in [DOMAIN word -> {word[i] : i \in DOMAIN word}
                               \cup {char_to_ascii_lowercase(word[i]) : i \in DOMAIN word}] :
        \A i \in DOMAIN word : m[i] \in {word[i], char_to_ascii_lowercase(word[i])}}

Methods ==
    CaseVariants(<<"G","E","T">>) \cup CaseVariants(<<"H","E","A","D">>)
    \cup {<<"P","U","T">>, <<"p","u","t">>,
          <<"P","O","S","T">>, <<"p","o","s","t">>, <<"P","o","S","t">>,
          <<"P","A","T","C","H">>, <<"p","a","t","c","h">>,
          <<"D","E","L","E","T","E">>, <<"d","e","l","e","t","e">>,
          <<"H","E","A","D">>, <<"h","e","a","d">>,
          <<"O","P","T","I","O","N","S">>, <<"o","p","t","i","o","n","s">>,
          <<"O","p","t","i","o","n","s">>,
          <<"T","R","A","C","E">>, <<"t","r","a","c","e">>,
          <<"C","O","N","N","E","C","T">>, <<"c","o","n","n","e","c","t">>,
          <<>>, <<"G","E","T","S">>, <<"G","E">>, <<"G","E","T","SP">>,
          <<"p","o","U+017F","t">>, <<"o","p","t","U+0131","o","n","s">>}

x_api_key == <<"X","-","A","p","i","-","K","e","y">>

Header(k, v) == [key |-> k, value |-> v]

\* the `headers` argument: a map, written as the set of its entries
HeaderMaps == {
    {},
    {Header(accept, <<"a","/","b">>), Header(x_api_key, <<"k","SP","1">>)},
    {Header(<<"x","SP","y">>, <<"v">>)},
    {Header(<<>>, <<"v">>)},
    {Header(accept, <<"v","CR","LF","x",":","1">>)},
    {Header(<<"x","LF">>, <<"v">>), Header(accept, <<"NUL">>)} }

\* the `body` argument
Bodies == {None, Some("{}")}

RespHeader(k, v, t) == [key |-> k, value |-> v, to_str_ok |-> t]

Statuses == {199, 200, 204, 299, 300, 404, 500}

\* what send() can return: a status, the header list and the time it took
Responses ==
    {[status |-> st, headers |-> h[1], duration_ms |-> h[2], bytes |-> None] :
        st \in Statuses,
        h \in {<<(<<RespHeader("content-type", "application/json", TRUE)>>), 0>>,
               <<(<<RespHeader("set-cookie", "a=1", TRUE),
                    RespHeader("x-bin", "not visible ASCII", FALSE),
                    RespHeader("set-cookie", "b=2", TRUE)>>), 1500>>}}

NoResponse == [status |-> 0, headers |-> <<>>, duration_ms |-> 0, bytes |-> None]

\* how far around the two size limits the body lengths are taken
BodySlack == 2

\* what response.bytes() can return: so many bytes, valid UTF-8 or not
BodyLens == {0}
    \cup ((MAX_SPEC_BYTES - BodySlack)..(MAX_SPEC_BYTES + BodySlack))
    \cup ((MAX_BODY_BYTES - BodySlack)..(MAX_BODY_BYTES + BodySlack))

BodyBytes == {[len |-> n, utf8 |-> b] : n \in BodyLens, b \in BOOLEAN}

TransportErrors == {"error sending request", "operation timed out", "too many redirects"}

\* ---------------------------------------------------------- the commands

Pending == [Ok(NoUrl) EXCEPT !.ok = FALSE, !.kind = "pending"]

Init ==
    /\ pc = "idle"
    /\ cmd = "none"
    /\ url = NoUrl
    /\ method = <<>>
    /\ headers = {}
    /\ body = None
    /\ dispatched = None
    /\ response = NoResponse
    /\ result = Pending

\* validate_url called on its own, as the unit tests call it
CallValidateUrl ==
    /\ pc = "idle"
    /\ \E u \in UrlTexts :
        /\ url' = u
        /\ result' = validate_url(u)
    /\ cmd' = "validate_url"
    /\ pc' = "done"
    /\ UNCHANGED <<method, headers, body, dispatched, response>>

\* execute_api_request up to request.send().await
ExecuteApiRequest ==
    /\ pc = "idle"
    /\ \E m \in Methods, u \in CmdUrls, hs \in HeaderMaps, b \in Bodies, build_ok \in BOOLEAN :
        \E header_err \in (IF HeaderErrors(hs) = {} THEN {Pending} ELSE HeaderErrors(hs)) :
            LET r == execute_prepare(m, u, hs, b, build_ok, header_err) IN
            /\ method' = m
            /\ url' = u
            /\ headers' = hs
            /\ body' = b
            /\ IF r[2] = NoRequest
               THEN /\ pc' = "done"
                    /\ result' = r[1]
                    /\ dispatched' = None
               ELSE /\ pc' = "send"
                    /\ result' = Pending
                    /\ dispatched' = Some(r[2])
    /\ cmd' = "execute_api_request"
    /\ UNCHANGED response

\* request.send().await returns in execute_api_request
ExecuteSend ==
    /\ pc = "send"
    /\ cmd = "execute_api_request"
    /\ \/ \E e \in TransportErrors :
            /\ result' = Err("Request failed: ", <<>>, e, None)
            /\ pc' = "done"
            /\ UNCHANGED response
       \/ \E r \in Responses :
            /\ response' = r
            /\ pc' = "bytes"
            /\ UNCHANGED result
    /\ UNCHANGED <<cmd, url, method, headers, body, dispatched>>

\* response.bytes().await returns in execute_api_request, and the rest of it
ExecuteBytes ==
    /\ pc = "bytes"
    /\ cmd = "execute_api_request"
    /\ \/ /\ result' = Err("Failed to read body: ", <<>>, "error decoding response body", None)
          /\ UNCHANGED response
       \/ \E bytes \in BodyBytes :
            /\ response' = [response EXCEPT !.bytes = Some(bytes)]
            /\ result' = execute_finish(response, bytes)
    /\ pc' = "done"
    /\ UNCHANGED <<cmd, url, method, headers, body, dispatched>>

\* fetch_spec up to send().await
FetchSpec ==
    /\ pc = "idle"
    /\ \E u \in CmdUrls, build_ok \in BOOLEAN :
        LET r == fetch_prepare(u, build_ok) IN
        /\ url' = u
        /\ IF r[2] = NoRequest
           THEN /\ pc' = "done"
                /\ result' = r[1]
                /\ dispatched' = None
           ELSE /\ pc' = "send"
                /\ result' = Pending
                /\ dispatched' = Some(r[2])
    /\ cmd' = "fetch_spec"
    /\ UNCHANGED <<method, headers, body, response>>

\* send().await returns in fetch_spec, and the status check
FetchSend ==
    /\ pc = "send"
    /\ cmd = "fetch_spec"
    /\ \/ \E e \in TransportErrors :
            /\ result' = Err("Failed to fetch spec: ", <<>>, e, None)
            /\ pc' = "done"
            /\ UNCHANGED response
       \/ \E r \in Responses :
            /\ response' = r
            /\ IF ~is_success(r.status)
               THEN /\ result' = Err("Failed to fetch spec: HTTP ", <<>>, "", Some(r.status))
                    /\ pc' = "done"
               ELSE /\ pc' = "bytes"
                    /\ UNCHANGED result
    /\ UNCHANGED <<cmd, url, method, headers, body, dispatched>>

\* response.bytes().await returns in fetch_spec, and the rest of it
FetchBytes ==
    /\ pc = "bytes"
    /\ cmd = "fetch_spec"
    /\ \/ /\ result' = Err("Failed to read spec: ", <<>>, "error decoding response body", None)
          /\ UNCHANGED response
       \/ \E bytes \in BodyBytes :
            /\ response' = [response EXCEPT !.bytes = Some(bytes)]
            /\ result' = fetch_finish(bytes)
    /\ pc' = "done"
    /\ UNCHANGED <<cmd, url, method, headers, body, dispatched>>

\* the caller takes the result; the next invocation starts afresh
Return ==
    /\ pc = "done"
    /\ pc' = "idle"
    /\ cmd' = "none"
    /\ url' = NoUrl
    /\ method' = <<>>
    /\ headers' = {}
    /\ body' = None
    /\ dispatched' = None
    /\ response' = NoResponse
    /\ result' = Pending

Next ==
    \/ CallValidateUrl
    \/ ExecuteApiRequest
    \/ ExecuteSend
    \/ ExecuteBytes
    \/ FetchSpec
    \/ FetchSend
    \/ FetchBytes
    \/ Return

Spec == Init /\ [][Next]_vars

\* validate_url alone, applied to every string of UrlTexts
NextValidate ==
    \/ CallValidateUrl
    \/ Return

SpecValidate == Init /\ [][NextValidate]_vars

\* ----------------------------------------------------------- properties

\* validate_url has returned on the string `url`
Validated == pc = "done" /\ cmd = "validate_url"

\* the eleven blocked ranges, written out address by address
ClaimInBlockedRange(h) ==
    LET a == h.addr IN
    \/ /\ h.form = "v4"
       /\ \/ a[1] = 10
          \/ a[1] = 172 /\ a[2] \in 16..31
          \/ a[1] = 192 /\ a[2] = 168
          \/ a[1] = 127
          \/ a[1] = 169 /\ a[2] = 254
          \/ a[1] = 100 /\ a[2] \in 64..127
          \/ a[1] = 198 /\ a[2] = 51 /\ a[3] = 100
          \/ a[1] = 203 /\ a[2] = 0 /\ a[3] = 113
    \/ /\ h.form = "v6"
       /\ \/ a = <<0, 0, 0, 0, 0, 0, 0, 1>>
          \/ a[1] \in 64512..65023          \* fc00.. through fdff..
          \/ a[1] \in 65152..65215          \* fe80.. through febf..

\* the four metadata hosts, as the host of a URL
ClaimIsMetadataHost(h) ==
    \/ h.form = "v4" /\ h.addr \in {<<169, 254, 169, 254>>, <<100, 100, 100, 200>>}
    \/ h.form = "name" /\ to_ascii_lowercase(h.name) = metadata_google_internal
    \/ h.form = "v6" /\ h.addr = <<64768, 3778, 0, 0, 0, 0, 0, 596>>

ClaimBlockedPorts == {22, 23, 25, 110, 143, 3306, 5432, 6379, 27017}

ClaimIsHttp(u) == to_ascii_lowercase(u.scheme) \in {http, https}

\* C1: a URL whose host is a literal IP address in one of the eleven blocked
\* ranges is never accepted, whatever its scheme and port.
C1_BlockedIpRejected ==
    (Validated /\ url.host.form \in {"v4", "v6"} /\ ClaimInBlockedRange(url.host))
        => ~result.ok

\* C2: an http or https URL whose host is one of the four metadata hosts is
\* never accepted, whatever its path and port.
C2_MetadataHostRejected ==
    (Validated /\ ClaimIsHttp(url) /\ ClaimIsMetadataHost(url.host)) => ~result.ok

ValidationErrors == {"Invalid URL: ", "Disallowed URL scheme: ", "URL has no host",
                     "Blocked host: ", "Blocked IP: ", "Blocked port: ",
                     "Unsallowed HTTP method: "}

\* the URL and, for execute_api_request, the method pass the checks
InputsPass ==
    /\ validate_url(url).ok
    /\ cmd = "execute_api_request" => to_uppercase(method) \in allowed_methods

\* C3: a command hands a request to send() only after the URL (and for
\* execute_api_request the method) passed validation; a command that ends
\* with a validation error has sent nothing, and a command whose input fails
\* validation ends at once with a validation error.
C3_NoDispatchBeforeValidation ==
    cmd \in {"execute_api_request", "fetch_spec"} =>
        /\ dispatched # None => InputsPass
        /\ (pc = "done" /\ result.kind \in ValidationErrors) => dispatched = None
        /\ ~InputsPass =>
              pc = "done" /\ result.kind \in ValidationErrors /\ dispatched = None

C3_Witness ==
    /\ cmd = "fetch_spec"
    /\ pc = "done"
    /\ result.kind = "Blocked IP: "
    /\ dispatched = None

ClaimHostRequired(u) == to_ascii_lowercase(u.scheme) \in {http, https, ftp, ws, wss}

ClaimHostAcceptable(u) ==
    /\ ClaimIsHttp(u)
    /\ u.host.form # "none"
    /\ ~ClaimIsMetadataHost(u.host)
    /\ u.host.form = "name" \/ ~ClaimInBlockedRange(u.host)

\* C5: an explicit port of the blocked set makes validate_url return an
\* error, the blocked-port error when scheme and host are acceptable; a URL
\* with no explicit port is never rejected for its port.
C5_BlockedPortRejected ==
    Validated =>
        /\ (url.port # None /\ url.port[1] \in ClaimBlockedPorts) =>
              /\ ~result.ok
              /\ ClaimHostAcceptable(url) =>
                    result.kind = "Blocked port: " /\ result.num = url.port
        /\ url.port = None => result.kind # "Blocked port: "

C5_Witness ==
    /\ Validated
    /\ url.scheme = https
    /\ url.host = NameHost(example_com)
    /\ url.port = Some(6379)
    /\ result.kind = "Blocked port: "

\* C6: a parseable http or https URL whose host is no metadata host and is a
\* name or an address outside every blocked range, and whose port is absent
\* or not blocked, is accepted, and the Ok value is the parsed URL.
C6_AcceptableAccepted ==
    (/\ Validated
     /\ Url_parse(url).ok
     /\ ClaimHostAcceptable(url)
     /\ url.port = None \/ url.port[1] \notin ClaimBlockedPorts)
        => result.ok /\ result.url = Url_parse(url).url

C6_Witness ==
    /\ Validated
    /\ url.scheme = https
    /\ url.host = V4Host(<<172, 32, 0, 0>>)
    /\ url.port = Some(8443)
    /\ result.ok
    /\ result.url.host.addr = <<172, 32, 0, 0>>

\* C7: a URL that parses and whose scheme is not http or https is rejected
\* for its scheme; validate_url returns Ok only for http and https URLs.
C7_OtherSchemeRejected ==
    Validated =>
        /\ (Url_parse(url).ok /\ ~ClaimIsHttp(url))
              => ~result.ok /\ result.kind = "Disallowed URL scheme: "
        /\ result.ok => ClaimIsHttp(url) /\ result.url.scheme \in {http, https}

C7_Witness ==
    /\ Validated
    /\ url.scheme = gopher
    /\ url.host = NameHost(example_com)
    /\ result.kind = "Disallowed URL scheme: "
    /\ result.name = gopher

ClaimSevenMethods == {<<"G","E","T">>, <<"P","O","S","T">>, <<"P","U","T">>,
                      <<"P","A","T","C","H">>, <<"D","E","L","E","T","E">>,
                      <<"H","E","A","D">>, <<"O","P","T","I","O","N","S">>}

\* m is one of the seven names up to the case of its letters
ClaimIsOneOfSeven(m) ==
    \E a \in ClaimSevenMethods :
        /\ Len(m) = Len(a)
        /\ \A i \in DOMAIN a : m[i] \in {a[i], char_to_ascii_lowercase(a[i])}

\* execute_api_request has got past validate_url and the method check
Executed == cmd = "execute_api_request" /\ pc # "idle" /\ validate_url(url).ok

\* C8: with a URL that passes validation, execute_api_request returns the
\* method error for every method whose upper-cased form is not one of the
\* seven names, and never for one of the seven names in any letter case.
C8_MethodAllowList ==
    Executed =>
        /\ to_uppercase(method) \notin ClaimSevenMethods =>
              /\ pc = "done"
              /\ result.kind = "Unsallowed HTTP method: "
              /\ result.name = method
        /\ ClaimIsOneOfSeven(method) => result.kind # "Unsallowed HTTP method: "

C8_Witness ==
    /\ Executed
    /\ method = <<"t","r","a","c","e">>
    /\ pc = "done"
    /\ result.kind = "Unsallowed HTTP method: "

\* fetch_spec has received a response
Fetched == cmd = "fetch_spec" /\ response # NoResponse

\* C9: fetch_spec returns the HTTP-status error with the status for every
\* response whose status is outside 200..299, before it reads the body, and
\* returns text only for a status in 200..299.
C9_NonSuccessStatusRejected ==
    /\ (Fetched /\ response.status \notin 200..299) =>
          /\ pc = "done"
          /\ result.kind = "Failed to fetch spec: HTTP "
          /\ result.num = Some(response.status)
          /\ response.bytes = None
    /\ (cmd = "fetch_spec" /\ result.ok) => response.status \in 200..299

C9_Witness ==
    /\ Fetched
    /\ response.status = 300
    /\ pc = "done"
    /\ result.num = Some(300)

\* execute_api_request has read the response body
BodyRead == cmd = "execute_api_request" /\ pc = "done" /\ response.bytes # None

\* C10: execute_api_request returns an ApiResponse for a body of up to and
\* including 10 * 1024 * 1024 bytes and the too-large error for a longer
\* one; an ApiResponse never holds a body of more than 10 MB.
C10_BodyLimit ==
    /\ BodyRead =>
          /\ response.bytes[1].len <= 10485760 =>
                result.ok /\ result.resp.body.len = response.bytes[1].len
          /\ response.bytes[1].len >= 10485761 =>
                result.kind = "Response body exceeds 10MB limit."
    /\ (cmd = "execute_api_request" /\ result.ok) =>
          BodyRead /\ result.resp.body.len <= 10485760

C10_Witness ==
    /\ BodyRead
    /\ response.bytes[1].len = 10485760
    /\ result.ok
    /\ result.resp.body.len = 10485760

====
